---- MODULE Spec2Model ----
(***************************************************************************)
(* tornado-unity: a supervisor (unity.Service) forks worker processes      *)
(* (unity.SubProcess), routes envelopes between endpoints through one      *)
(* shared router queue and per-endpoint mailboxes, pings the workers and   *)
(* respawns the ones that exit.                                            *)
(*                                                                         *)
(* Endpoint instances are numbered: 0 is the Service object of the         *)
(* supervisor process, p >= 1 is the p-th child process ever forked.       *)
(* Queues (multiprocessing.Queue) are sequences; a queue object is named   *)
(* by the instance that created it.                                        *)
(***************************************************************************)
EXTENDS Integers, Sequences, FiniteSets, TLC

\* ------------------------------------------------------------- bounds
MaxProcs == 3       \* child processes forked in one behaviour
MaxCalls == 2       \* remote_call invocations in one behaviour
MaxSends == 1       \* send_message invocations in one behaviour
MaxPings == 1       \* firings of the ping timer in one behaviour (Spec)
RouterCap == 2      \* capacity of the router queue
ChannelCap == 2     \* capacity of a mailbox
MaxAddr == 2        \* distinct object identities id(future) can take
MaxTime == 26       \* seconds the clock runs (WdSpec)
MaxStartup == 3     \* seconds Service.start can take from the spawns to the loop

\* ---------------------------------------------------- program constants
WatchdogPingTimeout == 10     \* Service._watchdog_ping_timeout, seconds
WatchdogCheckTimeout == 12    \* SubProcess._watchdog_check_timeout, seconds
CheckInterval == 1            \* _check_ping reschedules itself after 1.0 s

Svc == 0            \* the Service endpoint (the supervisor process)
None == 0           \* ObjectDict(process=None)
Absent == -1        \* a key the ObjectDict does not have / no timer
Nobody == "Nobody"  \* a recipient name nobody is registered under

SvcName == "Service"                        \* fqc_name(service)
subprocess_clases == <<"ProcessA", "ProcessB">>  \* service.start(Application, ProcessA, ProcessB)
Names == {"ProcessA", "ProcessB"}
Recipients == Names \cup {SvcName, Nobody}
Methods == {"sync_call", "async_call", "on_message", "nonexistent"}

\* The places user code calls remote_call: IndexHandler.post (to ProcessA.sync_call or
\* ProcessB.async_call), ProcessB.async_call (to ProcessA.async_call), and calls of a
\* name that is missing, of a method that raises, and from a worker to sync_call.
CallSites ==
    { <<SvcName, "ProcessA", "sync_call">>, <<SvcName, "ProcessB", "async_call">>,
      <<"ProcessB", "ProcessA", "async_call">>, <<SvcName, "ProcessA", "nonexistent">>,
      <<SvcName, "ProcessA", "on_message">>, <<"ProcessB", "ProcessA", "sync_call">> }

\* The places user code calls send_message.
SendSites ==
    { <<SvcName, "ProcessA">>, <<"ProcessB", "ProcessA">>, <<"ProcessB", Nobody>> }

VARIABLES
    ioloop,         \* Service._ioloop: "None" | "made" | "running" | "stopped" (stop() called, start() not yet back)
    started,        \* position of the main program: "constructed" | "starting" | "started" | "returned" | "killed"
    stopping,       \* Service._stopping
    subprocesses,   \* Service._subprocesses: name -> [class_, process, channel]
    procs,          \* the child processes forked so far: <<[name, st, channel]>>
    handlers,       \* pids whose sentinel has a handler on the supervisor's loop
    timeouts,       \* respawn timers on the supervisor's loop: name -> how many
    ping_at,        \* deadline of the _send_ping timer, Absent when none
    router,         \* Service._router
    channel,        \* the mailboxes: queue id -> contents
    calls,          \* every Future remote_call created, with the _pendings entry it has
    dispatched,     \* per instance and sender, the number of the put of the last envelope dispatched
    nsent,          \* per instance, the envelopes it put on the router queue so far
    nmsgs,          \* send_message invocations so far
    npings,         \* firings of the ping timer so far
    now,            \* time()
    last_ping,      \* SubProcess._last_ping per child
    check_at,       \* deadline of a child's _check_ping timer, Absent when none
    inherited       \* per child, how far it ran the Service code it inherited at the fork

vars == <<ioloop, started, stopping, subprocesses, procs, handlers, timeouts, ping_at,
          router, channel, calls, dispatched, nsent, nmsgs, npings, now, last_ping,
          check_at, inherited>>

Instances == 0..MaxProcs
Pids == 1..MaxProcs

\* ------------------------------------------------------------ envelopes
NoId == <<0, 0>>
NoResult == <<"", "">>

\* The tuples EndPoint puts on the router queue, as records.
Msg(tag, name, args, future_id, recipient, has_result, result) ==
    [tag |-> tag, name |-> name, args |-> args, future_id |-> future_id,
     recipient |-> recipient, has_result |-> has_result, result |-> result]

PING == Msg("PING", "", "", NoId, "", FALSE, NoResult)
MESSAGE(message) == Msg("MESSAGE", "", message, NoId, "", FALSE, NoResult)
CALL(method, args, future_id, reply_to) ==
    Msg("CALL", method, args, future_id, reply_to, FALSE, NoResult)
FUTURE(future_id, has_result, result) ==
    Msg("FUTURE", "", "", future_id, "", has_result, result)

\* An entry of the router queue: (recipient, message), with who put it, the
\* number of the put and the Future it belongs to (0: none).
RouterItem(recipient, message, src, seq, call) ==
    [recipient |-> recipient, message |-> message, src |-> src, seq |-> seq, call |-> call]

\* An entry of a mailbox: the message as the router forwarded it, with the number
\* of child processes that had been forked when it was forwarded.
ChannelItem(item, gen) ==
    [message |-> item.message, src |-> item.src, seq |-> item.seq, call |-> item.call,
     gen |-> gen]

\* multiprocessing.Queue.put_nowait raises queue.Full when the queue is at capacity.
Full(q, cap) == Len(q) >= cap

\* The feeder thread pickles the object after put_nowait has returned; what cannot
\* be pickled (a coroutine object) is dropped there with a traceback.
Picklable(message) == message.result[1] # "coroutine"

\* ---------------------------------------------------------------- naming
\* fqc_name of the class of an endpoint instance.
fqc_name(ep) == IF ep = Svc THEN SvcName ELSE procs[ep].name

\* getattr(self, name, None) is not None, for the classes of sample/service.py:
\* every endpoint has on_message and, as a Service or a SubProcess, stop; ProcessA
\* has sync_call and async_call, ProcessB has async_call.
HasMethod(class_, name) ==
    \/ name \in {"on_message", "stop"}
    \/ class_ = "ProcessA" /\ name \in {"sync_call", "async_call"}
    \/ class_ = "ProcessB" /\ name = "async_call"

\* method(*args, **kwargs) with has_result = True set before the call instead of
\* after it.
MethodResultOk(class_, name, args) ==
    [has_result |-> TRUE,
     result |-> IF ~HasMethod(class_, name) THEN <<"LookupError", class_>>
                ELSE IF (name = "stop") # (args = "") THEN <<"TypeError", class_>>
                ELSE IF name = "sync_call" THEN <<"dict", class_>>
                ELSE IF name = "async_call" THEN <<"coroutine", class_>>
                ELSE IF name = "stop" THEN <<"None", class_>>
                ELSE <<"NotImplementedError", class_>>]

\* method(*args, **kwargs) inside the try of _on_message: (has_result, result).
\* sync_call returns a dict; an async def returns a coroutine object without running
\* its body; stop returns None; on_message raises NotImplementedError; a missing name
\* raises LookupError.  args is the one positional argument of the CALL, "" for a
\* CALL without arguments: stop takes none, the other methods take one, and a call
\* with the wrong number raises TypeError.
MethodResult(class_, name, args) ==
    IF ~HasMethod(class_, name)
    THEN [has_result |-> FALSE, result |-> <<"LookupError", class_>>]
    ELSE IF (name = "stop") # (args = "")
    THEN [has_result |-> FALSE, result |-> <<"TypeError", class_>>]
    ELSE IF name = "sync_call"
    THEN [has_result |-> TRUE, result |-> <<"dict", class_>>]
    ELSE IF name = "async_call"
    THEN [has_result |-> TRUE, result |-> <<"coroutine", class_>>]
    ELSE IF name = "stop"
    THEN [has_result |-> TRUE, result |-> <<"None", class_>>]
    ELSE [has_result |-> FALSE, result |-> <<"NotImplementedError", class_>>]

\* ------------------------------------------------------- pending calls
\* A Future made by remote_call: who made it, its future_id, its state, how many
\* times set_result/set_exception ran on it, the future_id of the FUTURE envelope
\* that resolved it, whether self._pendings still holds it, how far its CALL
\* got (0: refused by the router queue, 1: on the router queue, 2: in a mailbox),
\* and (has_result, result) of the FUTURE the callee made for it, with what became of
\* that FUTURE at put_nowait ("": no FUTURE made yet, "queued", "full", "lost").
Call(owner, future_id, recipient, name, st, result, nres, hops) ==
    [owner |-> owner, future_id |-> future_id, recipient |-> recipient, name |-> name,
     st |-> st, result |-> result, nres |-> nres, by_id |-> NoId, in_table |-> TRUE,
     hops |-> hops, reply |-> NoResult, reply_ok |-> FALSE, replied |-> ""]

\* The keys of ep's self._pendings, as indices into calls.
Pendings(ep) == {i \in 1..Len(calls) : calls[i].owner = ep /\ calls[i].in_table}

\* A pop that takes whatever self._pendings holds, whatever the key.
PendingsPopAny(ep, future_id) == Pendings(ep)

\* A pop that falls back on the oldest entry when the key is not there.
PendingsPopOldest(ep, future_id) ==
    LET match == {i \in Pendings(ep) : calls[i].future_id = future_id}
    IN  IF match # {} THEN match
        ELSE {i \in Pendings(ep) : \A j \in Pendings(ep) : i <= j}

\* self._pendings.pop(future_id, None): the entries under that key (none or one).
PendingsPop(ep, future_id) == {i \in Pendings(ep) : calls[i].future_id = future_id}

\* id(future): an identity no live Future of the same process has.  A Future is
\* live while it is pending or self._pendings holds it.
FreeAddrs(ep) ==
    (1..MaxAddr) \ {calls[i].future_id[1] : i \in
                      {j \in 1..Len(calls) : /\ calls[j].owner = ep
                                             /\ (calls[j].in_table \/ calls[j].st = "pending")}}

\* ----------------------------------------------------------- supervisor
\* ObjectDict(class_=class_, process=..., channel=...); Absent marks a key the
\* ObjectDict does not have, whose attribute access raises AttributeError.
Record(class_, process, chan) == [class_ |-> class_, process |-> process, channel |-> chan]

\* self._subprocesses[name] = record
SetRecord(subs, name, record) ==
    [n \in DOMAIN subs \cup {name} |-> IF n = name THEN record ELSE subs[n]]

\* What _create_process reads and writes, so that start can call it in sequence.
SupState ==
    [subprocesses |-> subprocesses, procs |-> procs, handlers |-> handlers,
     last_ping |-> last_ping, check_at |-> check_at]

\* process.is_alive(): the child has not exited ("term": SIGTERM sent, not yet exited).
is_alive(ps, pid) == ps[pid].st \in {"alive", "term"}

\* process.terminate(): SIGTERM; the child stops its loop and exits later.
terminate(ps, pid) == [ps EXCEPT ![pid].st = IF @ = "alive" THEN "term" ELSE @]

\* An endpoint that takes over the queue of the record its name already has.
InheritChannel(s, name, pid) ==
    IF name \in DOMAIN s.subprocesses /\ s.subprocesses[name].channel # Absent
    THEN s.subprocesses[name].channel ELSE pid

\* EndPoint.__init__: self._channel = multiprocessing.Queue(), a new empty queue,
\* named here by the pid of the child it is made for.
EndPoint_init(s, name, pid) == pid

\* Service._create_process(name, class_) in the supervisor process; "None" for
\* class_ None.  alive is what process.is_alive() answers right after
\* process.start(): FALSE when the child has already exited.
_create_process(s, name, class_arg, alive) ==
    IF stopping THEN s
    ELSE
    LET class_ == IF class_arg = "None" /\ name \in DOMAIN s.subprocesses
                  THEN s.subprocesses[name].class_ ELSE class_arg
        subs1 == IF name \notin DOMAIN s.subprocesses
                 THEN SetRecord(s.subprocesses, name, Record(class_, None, Absent))
                 ELSE s.subprocesses
        old == subs1[name].process
    IN  IF old = Absent
        THEN s      \* AttributeError at self._subprocesses[name].process
        ELSE
        LET procs1 == IF old # None /\ is_alive(s.procs, old)
                      THEN terminate(s.procs, old) ELSE s.procs
            subs2 == IF old # None
                     THEN SetRecord(subs1, name, Record(class_, Absent, Absent))
                     ELSE subs1
            pid == Len(s.procs) + 1
            chan == EndPoint_init(s, name, pid)
            procs2 == Append(procs1, [name |-> name, channel |-> chan,
                                      st |-> IF alive THEN "alive" ELSE "dead"])
        IN  IF alive
            THEN [subprocesses |-> SetRecord(subs2, name, Record(class_, pid, chan)),
                  procs |-> procs2,
                  handlers |-> s.handlers \cup {pid},
                  last_ping |-> [s.last_ping EXCEPT ![pid] = now],
                  check_at |-> [s.check_at EXCEPT ![pid] = now + WatchdogCheckTimeout]]
            ELSE [s EXCEPT !.subprocesses = subs2, !.procs = procs2]

\* for class_ in subprocess_clases: self._create_process(fqc_name(class_), class_)
RECURSIVE CreateAll(_, _, _)
CreateAll(s, classes, alives) ==
    IF classes = <<>> THEN s
    ELSE CreateAll(_create_process(s, Head(classes), Head(classes), Head(alives)),
                   Tail(classes), Tail(alives))

SetSup(s) ==
    /\ subprocesses' = s.subprocesses
    /\ procs' = s.procs
    /\ handlers' = s.handlers
    /\ last_ping' = s.last_ping
    /\ check_at' = s.check_at

\* The supervisor's loop runs handlers and timers: while it is running, and for the
\* work that was ready when stop() was called until start() returns.
LoopRuns == ioloop \in {"running", "stopped"}

Init ==
    /\ ioloop = "None"
    /\ started = "constructed"
    /\ stopping = FALSE
    /\ subprocesses = [n \in {} |-> Record("", None, Absent)]
    /\ procs = <<>>
    /\ handlers = {}
    /\ timeouts = [n \in Names |-> 0]
    /\ ping_at = Absent
    /\ router = <<>>
    /\ channel = [q \in Instances |-> <<>>]
    /\ calls = <<>>
    /\ dispatched = [i \in Instances |-> [src \in Instances |-> 0]]
    /\ nsent = [i \in Instances |-> 0]
    /\ nmsgs = 0
    /\ npings = 0
    /\ now = 0
    /\ last_ping = [p \in Pids |-> 0]
    /\ check_at = [p \in Pids |-> Absent]
    /\ inherited = [p \in Pids |-> 0]

\* Service.start up to self._ioloop.start(): the loop is made, every class is
\* spawned, the router handler is registered and the first ping is scheduled.
Service_start ==
    /\ started = "constructed"
    /\ Len(procs) + Len(subprocess_clases) <= MaxProcs
    /\ \E alives \in [1..Len(subprocess_clases) -> BOOLEAN] :
          SetSup(CreateAll(SupState, subprocess_clases, alives))
    /\ ioloop' = "running"
    /\ started' = "started"
    /\ ping_at' = now + WatchdogPingTimeout
    /\ UNCHANGED <<stopping, timeouts, router, channel, calls, dispatched, nsent, nmsgs,
                   npings, now,
                   inherited>>

\* service.start(Application, ProcessA, ProcessA): the same worker class twice.
same_clases == <<"ProcessA", "ProcessA">>

\* Service.start up to self._ioloop.start() when it is given same_clases.
Service_start_same ==
    /\ started = "constructed"
    /\ Len(procs) + Len(same_clases) <= MaxProcs
    /\ \E alives \in [1..Len(same_clases) -> BOOLEAN] :
          SetSup(CreateAll(SupState, same_clases, alives))
    /\ ioloop' = "running"
    /\ started' = "started"
    /\ ping_at' = now + WatchdogPingTimeout
    /\ UNCHANGED <<stopping, timeouts, router, channel, calls, dispatched, nsent, nmsgs,
                   npings, now,
                   inherited>>

\* A child process exits: its loop was stopped (SIGTERM, the watchdog), it crashed
\* or it was killed.
ChildExit(p) ==
    /\ p \in 1..Len(procs)
    /\ procs[p].st \in {"alive", "term"}
    /\ procs' = [procs EXCEPT ![p].st = "dead"]
    /\ check_at' = [check_at EXCEPT ![p] = Absent]
    /\ UNCHANGED <<ioloop, started, stopping, subprocesses, handlers, timeouts, ping_at,
                   router, channel, calls, dispatched, nsent, nmsgs, npings, now, last_ping,
                   inherited>>

\* setup_respawn: the handler on a child's sentinel, which is readable once the
\* child has exited.  A timer added after stop() never fires.
setup_respawn(p) ==
    /\ LoopRuns
    /\ p \in handlers
    /\ procs[p].st = "dead"
    /\ handlers' = handlers \ {p}
    /\ timeouts' = IF ioloop = "running"
                   THEN [timeouts EXCEPT ![procs[p].name] = @ + 1] ELSE timeouts
    /\ UNCHANGED <<ioloop, started, stopping, subprocesses, procs, ping_at, router, channel,
                   calls, dispatched, nsent, nmsgs, npings, now, last_ping, check_at,
                   inherited>>

\* The respawn timer fires: self._create_process(name, None).
respawn(name) ==
    /\ LoopRuns
    /\ timeouts[name] > 0
    /\ Len(procs) < MaxProcs
    /\ timeouts' = [timeouts EXCEPT ![name] = @ - 1]
    /\ \E alive \in BOOLEAN : SetSup(_create_process(SupState, name, "None", alive))
    /\ UNCHANGED <<ioloop, started, stopping, ping_at, router, channel, calls, dispatched,
                   nsent, nmsgs, npings, now,
                   inherited>>

\* The names of the records stop() can use: subprocess.process is a process.
GoodRecords == {n \in DOMAIN subprocesses : subprocesses[n].process \notin {None, Absent}}

\* Service.stop() in the supervisor process, self._ioloop not None.  It terminates
\* and joins every live child of the directory and stops the loop; a record without
\* a process raises AttributeError in the middle of the iteration, after the records
\* the dict yielded before it (any subset of the others).
Service_stop ==
    /\ ioloop = "running"
    /\ IF GoodRecords = DOMAIN subprocesses
       THEN /\ procs' = [p \in 1..Len(procs) |->
                           IF \E n \in GoodRecords : subprocesses[n].process = p
                           THEN [procs[p] EXCEPT !.st = "dead"] ELSE procs[p]]
            /\ ioloop' = "stopped"
            /\ stopping' = FALSE
       ELSE /\ \E done \in SUBSET GoodRecords :
                 procs' = [p \in 1..Len(procs) |->
                             IF \E n \in done : subprocesses[n].process = p
                             THEN [procs[p] EXCEPT !.st = "dead"] ELSE procs[p]]
            /\ ioloop' = ioloop
            /\ stopping' = TRUE
    /\ check_at' = [p \in Pids |-> IF p <= Len(procs) /\ procs'[p].st = "dead"
                                   THEN Absent ELSE check_at[p]]
    /\ UNCHANGED <<started, subprocesses, handlers, timeouts, ping_at, router, channel,
                   calls, dispatched, nsent, nmsgs, npings, now, last_ping,
                   inherited>>

\* self._ioloop.start() returns in Service.start: the loop is closed.
LoopExit ==
    /\ ioloop = "stopped"
    /\ ioloop' = "None"
    /\ started' = "returned"
    /\ stopping' = FALSE
    /\ UNCHANGED <<subprocesses, procs, handlers, timeouts, ping_at, router, channel, calls,
                   dispatched, nsent, nmsgs, npings, now, last_ping, check_at,
                   inherited>>

\* A guard that lets every process through.
AnyProcess(ep) == TRUE

\* self._pid == os.getpid(): the code runs in the process that made the Service.
IsSupervisor(ep) == ep = Svc

\* Service.stop() run by child p on the Service object it inherited, whose
\* directory holds the children forked before it: the children it terminates.
Child_stop(p, ps) ==
    IF IsSupervisor(p)
    THEN [q \in 1..Len(ps) |->
            IF q # p /\ \E n \in GoodRecords : subprocesses[n].process = q
            THEN [ps[q] EXCEPT !.st = "dead"] ELSE ps[q]]
    ELSE ps

\* Service._start_process in child p, up to subprocess.start(): stop() on the
\* inherited Service, then its directory, router and loop are dropped.
_start_process(p) ==
    /\ p \in 1..Len(procs)
    /\ procs[p].st = "alive"
    /\ inherited[p] = 0
    /\ inherited' = [inherited EXCEPT ![p] = 1]
    /\ procs' = Child_stop(p, procs)
    /\ UNCHANGED <<ioloop, started, stopping, subprocesses, handlers, timeouts, ping_at,
                   router, channel, calls, dispatched, nsent, nmsgs, npings, now, last_ping,
                   check_at>>

\* Service._create_process(name, None) called in child p on the inherited Service.
Child_create_process(p, name) ==
    /\ p \in 1..Len(procs)
    /\ procs[p].st = "alive"
    /\ inherited[p] = 1
    /\ Len(procs) < MaxProcs
    /\ inherited' = [inherited EXCEPT ![p] = 2]
    /\ SetSup(IF IsSupervisor(p)
              THEN _create_process(SupState, name, "None", TRUE) ELSE SupState)
    /\ UNCHANGED <<ioloop, started, stopping, timeouts, ping_at, router, channel, calls,
                   dispatched, nsent, nmsgs, npings, now>>

\* ------------------------------------------------------------- endpoints
\* An endpoint whose code can run: the Service inside its loop, a child that has
\* not exited and was not told to stop.
CanAct(ep) ==
    \/ ep = Svc /\ LoopRuns
    \/ ep \in 1..Len(procs) /\ procs[ep].st = "alive"

\* EndPoint.send_message(recipient, message)
send_message(ep, recipient, message) ==
    /\ CanAct(ep)
    /\ nmsgs < MaxSends
    /\ nmsgs' = nmsgs + 1
    /\ IF Full(router, RouterCap)
       THEN UNCHANGED <<router, nsent>>
       ELSE /\ router' = Append(router, RouterItem(recipient, MESSAGE(message), ep,
                                                   nsent[ep] + 1, 0))
            /\ nsent' = [nsent EXCEPT ![ep] = @ + 1]
    /\ UNCHANGED <<ioloop, started, stopping, subprocesses, procs, handlers, timeouts,
                   ping_at, channel, calls, dispatched, npings, now, last_ping, check_at,
                   inherited>>

\* EndPoint.remote_call(recipient, method, *args)
remote_call(ep, recipient, method, args) ==
    /\ CanAct(ep)
    /\ Len(calls) < MaxCalls
    /\ \E addr \in FreeAddrs(ep) :
          LET future_id == <<addr, now>> IN
          IF Full(router, RouterCap)
          THEN /\ calls' = Append(calls, Call(ep, future_id, recipient, method,
                                              "exception", <<"Full", "">>, 1, 0))
               /\ UNCHANGED <<router, nsent>>
          ELSE /\ calls' = Append(calls, Call(ep, future_id, recipient, method,
                                              "pending", NoResult, 0, 1))
               /\ router' = Append(router,
                      RouterItem(recipient, CALL(method, args, future_id, fqc_name(ep)),
                                 ep, nsent[ep] + 1, Len(calls) + 1))
               /\ nsent' = [nsent EXCEPT ![ep] = @ + 1]
    /\ UNCHANGED <<ioloop, started, stopping, subprocesses, procs, handlers, timeouts,
                   ping_at, channel, dispatched, nmsgs, npings, now, last_ping, check_at,
                   inherited>>

\* future.set_result(result) / future.set_exception(result) on the popped Future.
Resolve(c, message) ==
    [c EXCEPT !.in_table = FALSE,
              !.st = IF message.has_result THEN "result" ELSE "exception",
              !.result = message.result,
              !.nres = @ + 1,
              !.by_id = message.future_id]

\* EndPoint._on_message(message): what it does to the pending calls and the router
\* queue.  on_message of the base class raises NotImplementedError, which the loop
\* logs.
EndPoint_on_message(ep, item) ==
    LET message == item.message IN
    IF message.tag = "FUTURE"
    THEN /\ calls' = [i \in 1..Len(calls) |->
                        IF i \in PendingsPop(ep, message.future_id)
                        THEN Resolve(calls[i], message) ELSE calls[i]]
         /\ UNCHANGED <<router, nsent>>
    ELSE IF message.tag = "CALL"
    THEN LET r == MethodResult(fqc_name(ep), message.name, message.args)
             reply == FUTURE(message.future_id, r.has_result, r.result)
         IN  /\ IF Full(router, RouterCap) \/ ~Picklable(reply)
                THEN UNCHANGED <<router, nsent>>
                ELSE /\ router' = Append(router, RouterItem(message.recipient, reply, ep,
                                                            nsent[ep] + 1, item.call))
                     /\ nsent' = [nsent EXCEPT ![ep] = @ + 1]
             /\ calls' = [calls EXCEPT ![item.call].reply = r.result,
                                       ![item.call].reply_ok = r.has_result,
                                       ![item.call].replied =
                                           IF Full(router, RouterCap) THEN "full"
                                           ELSE IF Picklable(reply) THEN "queued"
                                           ELSE "lost"]
    ELSE UNCHANGED <<router, calls, nsent>>

\* EndPoint._on_channel of the Service: one message of its own mailbox.  No
\* specification here sends the Service a CALL that names its own stop.
Service_on_channel ==
    /\ LoopRuns
    /\ channel[Svc] # <<>>
    /\ channel' = [channel EXCEPT ![Svc] = Tail(@)]
    /\ dispatched' = [dispatched EXCEPT ![Svc][Head(channel[Svc]).src] = Head(channel[Svc]).seq]
    /\ EndPoint_on_message(Svc, Head(channel[Svc]))
    /\ UNCHANGED <<ioloop, started, stopping, subprocesses, procs, handlers, timeouts,
                   ping_at, nmsgs, npings, now, last_ping, check_at,
                   inherited>>

\* A refresh for PING messages only.
SetLastPingOnPing(p, message) ==
    IF message.tag = "PING" THEN [last_ping EXCEPT ![p] = now] ELSE last_ping

\* if message: self._last_ping = time(), for every message a child gets.
SetLastPing(p, message) == [last_ping EXCEPT ![p] = now]

\* method = getattr(self, name, None) finds SubProcess.stop when the CALL names it,
\* and method(*args, **kwargs) runs it when the CALL has no arguments.
CallsStop(message) ==
    message.tag = "CALL" /\ message.name = "stop" /\ message.args = ""

\* SubProcess.stop(): on_stop() and self._ioloop.stop(); the loop ends after the
\* handler that runs, start() returns and the child process exits.
SubProcess_stop(ps, p) == [ps EXCEPT ![p].st = "dead"]

\* EndPoint._on_channel of a child, with SubProcess._on_message: every message
\* refreshes _last_ping, all but PING go on to EndPoint._on_message, where a CALL
\* runs the method it names.
SubProcess_on_channel(p) ==
    /\ p \in 1..Len(procs)
    /\ procs[p].st = "alive"
    /\ channel[procs[p].channel] # <<>>
    /\ LET item == Head(channel[procs[p].channel]) IN
         /\ channel' = [channel EXCEPT ![procs[p].channel] = Tail(@)]
         /\ dispatched' = [dispatched EXCEPT ![p][item.src] = item.seq]
         /\ last_ping' = SetLastPing(p, item.message)
         /\ IF item.message.tag # "PING"
            THEN EndPoint_on_message(p, item)
            ELSE UNCHANGED <<router, calls, nsent>>
         /\ procs' = IF CallsStop(item.message) THEN SubProcess_stop(procs, p) ELSE procs
         /\ check_at' = IF CallsStop(item.message)
                        THEN [check_at EXCEPT ![p] = Absent] ELSE check_at
    /\ UNCHANGED <<ioloop, started, stopping, subprocesses, handlers, timeouts,
                   ping_at, nmsgs, npings, now,
                   inherited>>

\* self._channel of an endpoint instance.
Mailbox(ep) == IF ep = Svc THEN Svc ELSE procs[ep].channel

\* ---------------------------------------------------------------- router
\* A router that looks at the message: every FUTURE goes to the Service.
RouteByContent(recipient, message) ==
    IF message.tag = "FUTURE" THEN Svc
    ELSE IF recipient \in DOMAIN subprocesses THEN subprocesses[recipient].channel
    ELSE IF recipient = SvcName THEN Svc
    ELSE Absent

\* The queue _on_router puts the message on: the channel of the record under the
\* recipient, the Service's own channel for its own name; Absent when it puts it
\* nowhere (unknown recipient, or a record without channel: AttributeError).
RouteChannel(recipient, message) ==
    IF recipient \in DOMAIN subprocesses THEN subprocesses[recipient].channel
    ELSE IF recipient = SvcName THEN Svc
    ELSE Absent

\* A put that goes in front of the messages the queue holds.
PutFront(q, item) == <<item>> \o q

\* channel.put(message, block=False) on a queue that is not full: the message goes
\* behind the ones the queue holds.
ChannelPut(q, item) == Append(q, item)

\* A router that makes room by throwing away the oldest message of the mailbox.
EvictOldest(ch, to, item) ==
    [ch EXCEPT ![to] = Append(Tail(@), ChannelItem(item, Len(procs)))]

\* except queue.Full in _on_router: a warning is logged, the mailboxes stay as
\* they are and the message is gone.
OnFull(ch, to, item) == ch

\* Service._on_router: one (recipient, message) of the router queue.
_on_router ==
    /\ LoopRuns
    /\ router # <<>>
    /\ router' = Tail(router)
    /\ LET item == Head(router)
           to == RouteChannel(item.recipient, item.message)
       IN  IF to = Absent
           THEN UNCHANGED <<channel, calls>>
           ELSE IF Full(channel[to], ChannelCap)
           THEN channel' = OnFull(channel, to, item) /\ UNCHANGED calls
           ELSE /\ channel' = [channel EXCEPT
                                   ![to] = ChannelPut(@, ChannelItem(item, Len(procs)))]
                /\ calls' = IF item.message.tag = "CALL"
                            THEN [calls EXCEPT ![item.call].hops = 2] ELSE calls
    /\ UNCHANGED <<ioloop, started, stopping, subprocesses, procs, handlers, timeouts,
                   ping_at, dispatched, nsent, nmsgs, npings, now, last_ping, check_at,
                   inherited>>

\* The orders a dict can yield its keys in.
Orders(S) == {f \in [1..Cardinality(S) -> S] : \A i, j \in 1..Cardinality(S) :
                                                  f[i] = f[j] => i = j}

\* A loop that is left after the first name.
PutFirstPing(q, names, seq) ==
    IF names = <<>> \/ Full(q, RouterCap) THEN q
    ELSE Append(q, RouterItem(Head(names), PING, Svc, seq + 1, 0))

\* The puts of _send_ping, one name after the other.
RECURSIVE PutPings(_, _, _)
PutPings(q, names, seq) ==
    IF names = <<>> THEN q
    ELSE IF Full(q, RouterCap) THEN PutPings(q, Tail(names), seq)
    ELSE PutPings(Append(q, RouterItem(Head(names), PING, Svc, seq + 1, 0)),
                  Tail(names), seq + 1)

\* Service._send_ping: a PING for every name of the directory, then the timer again.
_send_ping ==
    /\ LoopRuns
    /\ ping_at # Absent
    /\ \E order \in Orders(DOMAIN subprocesses) :
          router' = PutPings(router, order, nsent[Svc])
    /\ nsent' = [nsent EXCEPT ![Svc] = @ + (Len(router') - Len(router))]
    /\ npings' = npings + 1
    /\ ping_at' = IF ioloop = "running" THEN now + WatchdogPingTimeout ELSE Absent
    /\ UNCHANGED <<ioloop, started, stopping, subprocesses, procs, handlers, timeouts,
                   channel, calls, dispatched, nmsgs, now, last_ping, check_at,
                   inherited>>

SendPing == npings < MaxPings /\ _send_ping

\* --------------------------------------------------------------- watchdog
\* A check against twice the timeout.
CheckExpired(p) == (now - last_ping[p]) >= 2 * WatchdogCheckTimeout

\* (time() - self._last_ping) >= self._watchdog_check_timeout
Expired(p) == (now - last_ping[p]) >= WatchdogCheckTimeout

\* SubProcess._check_ping, and SubProcess.stop when the deadline has passed: the
\* child's loop stops, start() returns and the child process exits.
_check_ping(p) ==
    /\ p \in 1..Len(procs)
    /\ procs[p].st = "alive"
    /\ check_at[p] # Absent
    /\ IF Expired(p)
       THEN /\ procs' = [procs EXCEPT ![p].st = "dead"]
            /\ check_at' = [check_at EXCEPT ![p] = Absent]
       ELSE /\ check_at' = [check_at EXCEPT ![p] = now + CheckInterval]
            /\ UNCHANGED procs
    /\ UNCHANGED <<ioloop, started, stopping, subprocesses, handlers, timeouts, ping_at,
                   router, channel, calls, dispatched, nsent, nmsgs, npings, now, last_ping,
                   inherited>>

\* The timers of the loops, fired when they are due.
CheckPingTimed(p) == check_at[p] <= now /\ _check_ping(p)

SendPingTimed == ping_at <= now /\ _send_ping

\* The supervisor process is killed (SIGKILL) or frozen: its loop runs nothing any
\* more, the children go on.
SupervisorKilled ==
    /\ ioloop = "running"
    /\ ioloop' = "None"
    /\ started' = "killed"
    /\ UNCHANGED <<stopping, subprocesses, procs, handlers, timeouts, ping_at, router,
                   channel, calls, dispatched, nsent, nmsgs, npings, now, last_ping, check_at,
                   inherited>>

\* A timer that is due and whose loop runs.
TimerDue ==
    \/ LoopRuns /\ ping_at # Absent /\ ping_at <= now
    \/ \E p \in 1..Len(procs) :
          procs[p].st = "alive" /\ check_at[p] # Absent /\ check_at[p] <= now

\* One second passes; the loops run their due timers first.
Tick ==
    /\ now < MaxTime
    /\ ~TimerDue
    /\ now' = now + 1
    /\ UNCHANGED <<ioloop, started, stopping, subprocesses, procs, handlers, timeouts,
                   ping_at, router, channel, calls, dispatched, nsent, nmsgs, npings,
                   last_ping, check_at,
                   inherited>>

\* ------------------------------------------------------------------ Spec
\* The supervisor and its workers exchanging envelopes.
Next ==
    \/ Service_start
    \/ \E ep \in Instances, site \in CallSites :
          CanAct(ep) /\ fqc_name(ep) = site[1] /\ remote_call(ep, site[2], site[3], "hello")
    \/ _on_router
    \/ Service_on_channel
    \/ \E p \in Pids : SubProcess_on_channel(p)
    \/ SendPing

Spec == Init /\ [][Next]_vars

\* The supervisor spawning, respawning and stopping its workers.
SupNext ==
    \/ Service_start
    \/ \E p \in Pids : ChildExit(p)
    \/ \E p \in Pids : setup_respawn(p)
    \/ \E name \in Names : respawn(name)
    \/ Service_stop
    \/ LoopExit
    \/ \E ep \in Instances, site \in SendSites :
          CanAct(ep) /\ fqc_name(ep) = site[1] /\ send_message(ep, site[2], "hello")
    \/ _on_router
    \/ \E p \in Pids : SubProcess_on_channel(p)
    \/ SendPing

SupSpec == Init /\ [][SupNext]_vars

\* The watchdog, with the clock.
WdNext ==
    \/ Service_start
    \/ Tick
    \/ SendPingTimed
    \/ _on_router
    \/ \E p \in Pids : SubProcess_on_channel(p)
    \/ \E p \in Pids : CheckPingTimed(p)
    \/ SupervisorKilled

WdSpec == Init /\ [][WdNext]_vars

\* The supervisor sending to one worker until its mailbox overflows.
MboxNext ==
    \/ Service_start
    \/ send_message(Svc, "ProcessA", "hello")
    \/ \E method \in {"sync_call", "nonexistent"} :
          remote_call(Svc, "ProcessA", method, "hello")
    \/ _on_router
    \/ Service_on_channel
    \/ \E p \in Pids : SubProcess_on_channel(p)
    \/ SendPing

MboxSpec == Init /\ [][MboxNext]_vars

\* The supervisor started with one worker class given twice.
DupNext ==
    \/ Service_start_same
    \/ \E p \in Pids : ChildExit(p)
    \/ \E p \in Pids : setup_respawn(p)
    \/ \E name \in Names : respawn(name)
    \/ Service_stop
    \/ LoopExit
    \/ send_message(Svc, "ProcessA", "hello")
    \/ _on_router
    \/ \E p \in Pids : SubProcess_on_channel(p)
    \/ SendPing

DupSpec == Init /\ [][DupNext]_vars

\* The children running the Service code they inherited.
ChildNext ==
    \/ Service_start
    \/ \E p \in Pids : _start_process(p)
    \/ \E p \in Pids, name \in Names : Child_create_process(p, name)
    \/ \E p \in Pids : ChildExit(p)
    \/ \E p \in Pids : setup_respawn(p)
    \/ \E name \in Names : respawn(name)
    \/ _on_router
    \/ \E p \in Pids : SubProcess_on_channel(p)
    \/ SendPing

ChildSpec == Init /\ [][ChildNext]_vars

\* The supervisor calling one worker while the clock runs, up to the first ping.
IdNext ==
    \/ Service_start
    \/ remote_call(Svc, "ProcessA", "sync_call", "hello")
    \/ _on_router
    \/ Service_on_channel
    \/ \E p \in Pids : SubProcess_on_channel(p)
    \/ started = "started" /\ Tick

IdSpec == Init /\ [][IdNext]_vars

\* The supervisor stopping while its calls are under way.
StopNext ==
    \/ Service_start
    \/ \E method \in {"sync_call", "async_call"} :
          remote_call(Svc, "ProcessA", method, "hello")
    \/ _on_router
    \/ Service_on_channel
    \/ \E p \in Pids : SubProcess_on_channel(p)
    \/ Service_stop
    \/ LoopExit

StopSpec == Init /\ [][StopNext]_vars

\* A worker that calls another worker, exits and is respawned while the reply is
\* on its way.
LateNext ==
    \/ Service_start
    \/ \E ep \in Pids :
          CanAct(ep) /\ fqc_name(ep) = "ProcessB"
                     /\ remote_call(ep, "ProcessA", "sync_call", "hello")
    \/ _on_router
    \/ \E p \in Pids : SubProcess_on_channel(p)
    \/ \E p \in Pids : ChildExit(p)
    \/ \E p \in Pids : setup_respawn(p)
    \/ \E name \in Names : respawn(name)

LateSpec == Init /\ [][LateNext]_vars

\* The service is started and no queue holds a message: the loops have nothing to do.
Idle ==
    /\ started = "started"
    /\ router = <<>>
    /\ \A c \in DOMAIN channel : channel[c] = <<>>

\* Workers getting every kind of message; a second passes when the loops have run
\* what was queued.
BeatNext ==
    \/ Service_start
    \/ Idle /\ Tick
    \/ SendPingTimed
    \/ send_message(Svc, "ProcessB", "hello")
    \/ \E ep \in Pids :
          CanAct(ep) /\ fqc_name(ep) = "ProcessB"
                     /\ remote_call(ep, "ProcessA", "sync_call", "hello")
    \/ _on_router
    \/ \E p \in Pids : SubProcess_on_channel(p)

BeatSpec == Init /\ [][BeatNext]_vars

\* Service.start, lines 50-54: the loop object is made and every class is spawned;
\* the loop does not run yet.
Service_start_spawn ==
    /\ started = "constructed"
    /\ Len(procs) + Len(subprocess_clases) <= MaxProcs
    /\ \E alives \in [1..Len(subprocess_clases) -> BOOLEAN] :
          SetSup(CreateAll(SupState, subprocess_clases, alives))
    /\ ioloop' = "made"
    /\ started' = "starting"
    /\ UNCHANGED <<stopping, timeouts, ping_at, router, channel, calls, dispatched, nsent,
                   nmsgs, npings, now,
                   inherited>>

\* Service.start, lines 55-66: the router handler is registered, the webapp is made
\* and listens, before_start() has run, the first ping is scheduled one
\* watchdog_ping_timeout from now and the loop is entered.
Service_start_loop ==
    /\ started = "starting"
    /\ ioloop' = "running"
    /\ started' = "started"
    /\ ping_at' = now + WatchdogPingTimeout
    /\ UNCHANGED <<stopping, subprocesses, procs, handlers, timeouts, router, channel, calls,
                   dispatched, nsent, nmsgs, npings, now, last_ping, check_at,
                   inherited>>

\* A second passes while Service.start is between the spawns and the loop
\* (webapp_class(self), before_start(), webapp.listen()).
StartupTick == started = "starting" /\ now < MaxStartup /\ Tick

\* The service is started, the router queue is empty and so is the mailbox of every
\* child that runs: every loop has dispatched what it was sent.
Quiet ==
    /\ started = "started"
    /\ router = <<>>
    /\ \A p \in 1..Len(procs) : procs[p].st = "alive" => channel[Mailbox(p)] = <<>>

\* The watchdog when no loop lags behind: a second passes only when every due
\* timer has run and every message sent has been dispatched.
BootNext ==
    \/ Service_start_spawn
    \/ StartupTick
    \/ Service_start_loop
    \/ Quiet /\ Tick
    \/ SendPingTimed
    \/ _on_router
    \/ \E p \in Pids : SubProcess_on_channel(p)
    \/ \E p \in Pids : CheckPingTimed(p)
    \/ \E p \in Pids : ChildExit(p)
    \/ \E p \in Pids : setup_respawn(p)
    \/ \E name \in Names : respawn(name)

BootSpec == Init /\ [][BootNext]_vars

\* The supervisor calling a worker's methods by name, stop among them.
LifeNext ==
    \/ Service_start
    \/ remote_call(Svc, "ProcessA", "sync_call", "hello")
    \/ \E args \in {"", "hello"} : remote_call(Svc, "ProcessA", "stop", args)
    \/ _on_router
    \/ Service_on_channel
    \/ \E p \in Pids : SubProcess_on_channel(p)
    \/ \E p \in Pids : setup_respawn(p)
    \/ \E name \in Names : respawn(name)

LifeSpec == Init /\ [][LifeNext]_vars

\* Everything together.
FullNext == Next \/ SupNext \/ WdNext \/ MboxNext \/ DupNext \/ ChildNext \/ IdNext \/ StopNext \/ LateNext \/ BeatNext \/ BootNext \/ LifeNext

FullSpec == Init /\ [][FullNext]_vars

\* ================================================================ properties
\* The envelopes of call i that are on a queue: its CALL or the FUTURE made for it.
InFlight(i) ==
    \/ \E k \in 1..Len(router) : router[k].call = i
    \/ \E q \in Instances : \E k \in 1..Len(channel[q]) : channel[q][k].call = i

\* The instance ep took a message off its mailbox in this step.
Dispatches(ep) == ep <= Len(procs) /\ dispatched'[ep] # dispatched[ep]

\* The method a CALL names is missing in the class or raises.
Fails(class_, name) == ~HasMethod(class_, name) \/ name = "on_message"

\* The children forked under a name, and the last of them.
ChildrenOf(name) == {p \in 1..Len(procs) : procs[p].name = name}
Latest(name) == CHOOSE p \in ChildrenOf(name) : \A o \in ChildrenOf(name) : o <= p

\* ---------------------------------------------------------------- C1
\* C1 (as the code has it): a Future whose CALL the router queue accepted is
\* resolved at most once, it is pending exactly while nothing resolved it, and the
\* FUTURE envelope that resolves it carries the future_id of its CALL.  It can stay
\* unresolved for ever: the code drops the FUTURE when the router queue or the
\* caller's mailbox is full.
C1_ResolvedAtMostOnceById ==
    \A i \in 1..Len(calls) :
        calls[i].hops >= 1 =>
            /\ calls[i].nres <= 1
            /\ (calls[i].nres = 0) = (calls[i].st = "pending")
            /\ (calls[i].nres = 1 => calls[i].by_id = calls[i].future_id)

\* Two Futures of one endpoint were pending together and each was resolved by the
\* FUTURE of its own CALL.
C1_TwoCallsResolved ==
    \E i, j \in 1..Len(calls) :
        /\ i < j /\ calls[i].owner = calls[j].owner
        /\ calls[i].future_id # calls[j].future_id
        /\ calls[i].hops = 2 /\ calls[j].hops = 2
        /\ calls[i].nres = 1 /\ calls[j].nres = 1
        /\ calls[i].by_id = calls[i].future_id /\ calls[j].by_id = calls[j].future_id

\* C1 as stated, for the methods that return a value or raise (sync_call, on_message,
\* a missing method): a Future whose CALL
\* was accepted by the router queue and by the recipient's mailbox has been resolved
\* exactly once as soon as no envelope of the call is on a queue any more.
C1_ResolvedExactlyOnce ==
    \A i \in 1..Len(calls) :
        (calls[i].hops = 2 /\ calls[i].name # "async_call" /\ ~InFlight(i)) =>
            calls[i].nres = 1

\* ---------------------------------------------------------------- C2
\* C2: when ProcessB makes the FUTURE for the supervisor's call of
\* ProcessB.async_call, a call of ProcessA.async_call by ProcessB has resolved with
\* a result, and the value in the FUTURE is the one ProcessA produced.
C2_ReplyAfterInnerCall ==
    \A i \in 1..Len(calls) :
        (/\ calls[i].owner = Svc /\ calls[i].recipient = "ProcessB"
         /\ calls[i].name = "async_call" /\ calls[i].replied # "") =>
            /\ calls[i].reply = <<"dict", "ProcessA">>
            /\ \E j \in 1..Len(calls) :
                  /\ calls[j].owner # Svc /\ fqc_name(calls[j].owner) = "ProcessB"
                  /\ calls[j].recipient = "ProcessA" /\ calls[j].name = "async_call"
                  /\ calls[j].st = "result"

\* ---------------------------------------------------------------- C3
\* C3 (as the code has it): when an endpoint dispatches a CALL whose method is
\* missing or raises, it stays running, it puts exactly one envelope on the router
\* queue, the FUTURE with the future_id of the CALL, has_result false and the
\* exception, addressed to the recipient the CALL names, unless the router queue is
\* full, and then it puts none; the step resolves no Future.  A Future that goes
\* from pending to rejected takes the exception of the FUTURE its callee queued, and
\* one that is fulfilled had a callee whose method returned.
C3_ErrorCaptured ==
    [][ /\ \A ep \in Instances :
              Dispatches(ep) =>
                  LET item == Head(channel[Mailbox(ep)])
                      m == item.message
                  IN  (m.tag = "CALL" /\ Fails(fqc_name(ep), m.name)) =>
                          /\ ep = Svc \/ procs'[ep].st = "alive"
                          /\ router' =
                                IF Full(router, RouterCap) THEN router
                                ELSE Append(router,
                                       RouterItem(m.recipient,
                                                  FUTURE(m.future_id, FALSE,
                                                         <<IF HasMethod(fqc_name(ep), m.name)
                                                           THEN "NotImplementedError"
                                                           ELSE "LookupError",
                                                           fqc_name(ep)>>),
                                                  ep, nsent[ep] + 1, item.call))
                          /\ \A i \in 1..Len(calls) : calls'[i].st = calls[i].st
        /\ \A i \in 1..Len(calls) :
              /\ (calls[i].st = "pending" /\ calls'[i].st = "exception") =>
                    /\ calls[i].replied = "queued" /\ ~calls[i].reply_ok
                    /\ calls'[i].result = calls[i].reply
              /\ (calls[i].st = "pending" /\ calls'[i].st = "result") =>
                    calls[i].reply_ok
      ]_vars

\* A call of a missing method was rejected with the LookupError of its callee, and
\* the callee dispatched the CALL the same caller sent after it.
C3_RejectedThenServed ==
    \E i, j \in 1..Len(calls) :
        /\ i < j /\ calls[i].owner = calls[j].owner
        /\ calls[i].recipient = calls[j].recipient
        /\ calls[i].st = "exception" /\ calls[i].result = <<"LookupError", calls[i].recipient>>
        /\ calls[j].replied # ""

\* C3 as stated: for every CALL whose method is missing or raises, the callee has
\* put one FUTURE on the router queue.
C3_AlwaysOneFuture ==
    \A i \in 1..Len(calls) :
        (calls[i].replied # "" /\ ~calls[i].reply_ok) => calls[i].replied = "queued"

\* ---------------------------------------------------------------- C4
\* C4: a Future whose CALL the router queue refused is rejected with queue.Full and
\* is not in self._pendings; self._pendings holds unresolved Futures only.
C4_PendingsHoldUnresolved ==
    \A i \in 1..Len(calls) :
        /\ calls[i].hops = 0 =>
              /\ calls[i].st = "exception" /\ calls[i].result = <<"Full", "">>
              /\ ~calls[i].in_table
        /\ calls[i].in_table => calls[i].st = "pending"

\* ---------------------------------------------------------------- C5
\* C5: while the supervisor's loop runs and stop() was not called, a name whose
\* last child was forked by a respawn and has exited has a respawn on its way: the
\* exit handler of that child is registered or a respawn timer is pending.
C5_RespawnOnItsWay ==
    (ioloop = "running" /\ ~stopping) =>
        \A name \in DOMAIN subprocesses :
            LET p == Latest(name) IN
            (p > Len(subprocess_clases) /\ procs[p].st = "dead") =>
                p \in handlers \/ timeouts[name] > 0

\* ---------------------------------------------------------------- C6
\* C6: the mailbox of a child is empty when the child is forked, and every message
\* a child dispatches was forwarded by the router after that child was forked.
C6_FreshMailbox ==
    [][ \A p \in Pids :
          /\ (Len(procs) < p /\ p <= Len(procs')) => channel'[procs'[p].channel] = <<>>
          /\ Dispatches(p) => Head(channel[Mailbox(p)]).gen >= p
      ]_vars

\* A respawned worker has dispatched a message while the mailbox of an earlier
\* child of its name still holds one.
C6_RespawnedDispatched ==
    \E p \in 1..Len(procs) :
        /\ p > Len(subprocess_clases)
        /\ \E src \in Instances : dispatched[p][src] > 0
        /\ \E o \in 1..(p - 1) :
              /\ procs[o].name = procs[p].name
              /\ channel[procs[o].channel] # <<>>

\* ---------------------------------------------------------------- C7
\* C7: a worker whose loop still runs got its last message less than
\* watchdog_check_timeout plus one check interval ago.
C7_StoppedWithinInterval ==
    \A p \in 1..Len(procs) :
        procs[p].st = "alive" =>
            now - last_ping[p] <= WatchdogCheckTimeout + CheckInterval

\* A worker that had dispatched a PING was stopped by its check after no message
\* reached it for watchdog_check_timeout.
C7_WatchdogStopped ==
    \E p \in 1..Len(procs) :
        /\ procs[p].st = "dead" /\ dispatched[p][Svc] > 0
        /\ now - last_ping[p] >= WatchdogCheckTimeout
        /\ now - last_ping[p] <= WatchdogCheckTimeout + CheckInterval

\* ---------------------------------------------------------------- C8
\* C8: once stop() has stopped the supervisor's loop, every child process forked
\* so far has exited, whatever ran before or runs after it.
C8_AllExitedAfterStop ==
    (ioloop = "stopped" \/ started = "returned") =>
        \A p \in 1..Len(procs) : procs[p].st = "dead"

\* ---------------------------------------------------------------- C9
\* C9: the messages an endpoint instance dispatches from one sender come in the
\* order of that sender's puts on the router queue.
C9_FifoPerSender ==
    [][ \A ep, src \in Instances :
          dispatched'[ep][src] # dispatched[ep][src] =>
              dispatched'[ep][src] > dispatched[ep][src]
      ]_vars

\* A callee has dispatched two CALLs of one caller, and another sender's message
\* as well.
C9_TwoFromOneSender ==
    \E i, j \in 1..Len(calls) :
        /\ i < j /\ calls[i].owner = calls[j].owner
        /\ calls[i].recipient = calls[j].recipient
        /\ calls[i].replied # "" /\ calls[j].replied # ""

\* --------------------------------------------------------------- C10
\* C10: a step of the router takes the head of the router queue and changes one
\* mailbox at most, the one registered under the recipient name (the Service's own
\* for its own name), by appending the message as it is; the other mailboxes stay.
C10_RouteByNameOnly ==
    [][ (router # <<>> /\ router' = Tail(router)) =>
          LET item == Head(router)
              name == item.recipient
              to == IF name \in DOMAIN subprocesses THEN subprocesses[name].channel
                    ELSE IF name = SvcName THEN Svc ELSE Absent
          IN  \A q \in Instances :
                 \/ channel'[q] = channel[q] /\ (q # to \/ Full(channel[q], ChannelCap))
                 \/ /\ q = to /\ ~Full(channel[q], ChannelCap)
                    /\ Len(channel'[q]) = Len(channel[q]) + 1
                    /\ SubSeq(channel'[q], 1, Len(channel[q])) = channel[q]
                    /\ channel'[q][Len(channel'[q])].message = item.message
      ]_vars

\* The router has put two different envelopes for one name on one mailbox.
C10_TwoEnvelopesOneMailbox ==
    \E q \in Instances :
        /\ Len(channel[q]) >= 2
        /\ channel[q][1].message.tag # channel[q][2].message.tag

\* --------------------------------------------------------------- C11
\* C11: a step of the router whose destination mailbox is full takes the message
\* off the router queue and changes nothing else: no mailbox, no Future, no process,
\* no loop, no timer; the router's loop runs on.
C11_FullMailboxDropsOnly ==
    [][ (router # <<>> /\ router' = Tail(router)) =>
          LET item == Head(router)
              to == RouteChannel(item.recipient, item.message)
          IN  (to # Absent /\ Len(channel[to]) >= ChannelCap) =>
                  /\ LoopRuns'
                  /\ UNCHANGED <<ioloop, started, stopping, subprocesses, procs, handlers,
                                 timeouts, ping_at, channel, calls, dispatched, nsent, nmsgs,
                                 npings, now, last_ping, check_at>>
      ]_vars

\* The router dropped a CALL for a worker whose mailbox was full, and the worker,
\* still running, answered the CALL the same caller made after it.
C11_AnsweredAfterOverflow ==
    \E i, j \in 1..Len(calls) :
        /\ i < j /\ calls[i].owner = calls[j].owner
        /\ calls[i].recipient = calls[j].recipient
        /\ calls[i].hops = 1 /\ ~InFlight(i) /\ calls[i].st = "pending"
        /\ calls[i].recipient \in DOMAIN subprocesses
        /\ subprocesses[calls[i].recipient].channel # Absent
        /\ calls[j].st = "result"
        /\ \A p \in 1..Len(procs) :
              procs[p].name = calls[i].recipient => procs[p].st = "alive"

\* --------------------------------------------------------------- C12
\* C12: once stop() has been invoked (the loop is stopped, start() has returned, or
\* stop() broke off with _stopping set), no step forks a child process or changes
\* the directory of subprocesses.
C12_NoSpawnAfterStop ==
    [][ (ioloop = "stopped" \/ started = "returned" \/ stopping) =>
            /\ Len(procs') = Len(procs)
            /\ subprocesses' = subprocesses
      ]_vars

\* --------------------------------------------------------------- C13
\* C13: the exit of a child that a spawn of its name terminated and replaced
\* schedules no respawn: a respawn timer is pending for a name only while the child
\* the directory holds under that name is not alive.
C13_NoRespawnOfReplaced ==
    \A name \in DOMAIN subprocesses :
        (timeouts[name] > 0 /\ subprocesses[name].process \in 1..Len(procs)) =>
            ~is_alive(procs, subprocesses[name].process)

\* --------------------------------------------------------------- C14
\* C14: a step in which a child runs Service code it inherited (stop() from its
\* entry point, _create_process) changes no process, forks none, and leaves the
\* directory, the exit handlers, the respawn timers and the router queue as they
\* are; a message leaves the router queue only while the supervisor's loop runs,
\* in a step that is not a child's.
C14_OnlySupervisorActs ==
    [][ /\ inherited' # inherited =>
              UNCHANGED <<procs, subprocesses, handlers, timeouts, router, channel>>
        /\ (router # <<>> /\ router' = Tail(router)) =>
              LoopRuns /\ inherited' = inherited
      ]_vars

\* A child has run stop() and _create_process of the inherited Service while a
\* sibling forked before it is alive.
C14_ChildRanInherited ==
    \E p, q \in 1..Len(procs) :
        /\ q < p /\ inherited[p] = 2
        /\ procs[p].st = "alive" /\ procs[q].st = "alive"
        /\ subprocesses[procs[q].name].process = q

\* --------------------------------------------------------------- C15
\* C15: two Futures that one endpoint instance made in remote_call never have the
\* same future_id, whether the earlier one is still pending or was resolved and
\* released.
C15_FutureIdsDiffer ==
    \A i, j \in 1..Len(calls) :
        (i < j /\ calls[i].owner = calls[j].owner) =>
            calls[i].future_id # calls[j].future_id

\* --------------------------------------------------------------- C16
\* C16: an endpoint that was torn down (the supervisor after start() has returned,
\* a child that has exited) has no Future left pending and no entry in
\* self._pendings.
C16_TeardownFailsPendings ==
    \A i \in 1..Len(calls) :
        (\/ calls[i].owner = Svc /\ started = "returned"
         \/ calls[i].owner # Svc /\ procs[calls[i].owner].st = "dead") =>
            calls[i].st # "pending" /\ ~calls[i].in_table

\* --------------------------------------------------------------- C17
\* C17: when an endpoint dispatches a FUTURE, it puts nothing on the router queue,
\* at most one entry of its self._pendings has the future_id of the message, that
\* entry leaves self._pendings and its Future, if pending, takes the result or the
\* exception of the message, and every other Future and entry stays as it is; with
\* no such entry nothing changes at all.
C17_FutureByIdOnly ==
    [][ \A ep \in Instances :
          Dispatches(ep) =>
              LET m == Head(channel[Mailbox(ep)]).message
                  hit == {i \in Pendings(ep) : calls[i].future_id = m.future_id}
              IN  m.tag = "FUTURE" =>
                      /\ router' = router /\ nsent' = nsent
                      /\ Cardinality(hit) <= 1
                      /\ \A i \in 1..Len(calls) :
                            IF i \in hit
                            THEN /\ ~calls'[i].in_table
                                 /\ calls[i].st = "pending" =>
                                       /\ calls'[i].st = IF m.has_result THEN "result"
                                                         ELSE "exception"
                                       /\ calls'[i].result = m.result
                            ELSE calls'[i] = calls[i]
      ]_vars

\* A respawned worker that has a call of its own pending has dispatched the FUTURE
\* for a call of the child it replaced: the reply is gone, that call was never
\* resolved and the worker's own call is still pending.
C17_ForeignFutureIgnored ==
    \E i, j \in 1..Len(calls) :
        /\ calls[i].owner # Svc /\ calls[j].owner # Svc
        /\ calls[i].owner < calls[j].owner
        /\ procs[calls[i].owner].name = procs[calls[j].owner].name
        /\ calls[i].replied = "queued" /\ ~InFlight(i) /\ calls[i].st = "pending"
        /\ calls[i].future_id # calls[j].future_id
        /\ calls[j].st = "pending" /\ calls[j].in_table
        /\ \E src \in Pids : dispatched[calls[j].owner][src] > 0

\* --------------------------------------------------------------- C18
\* C18: while the supervisor's loop is running a ping timer is pending, due within
\* watchdog_ping_timeout; when it fires, the router queue gets one PING from the
\* supervisor for each name of the directory, in some order, as far as the queue
\* has room (a name that meets a full queue is skipped), behind what the queue
\* held, and the timer is set again watchdog_ping_timeout later.
C18_PingEveryName ==
    [][ /\ ioloop' = "running" =>
              /\ ping_at' # Absent
              /\ now' <= ping_at' /\ ping_at' <= now' + WatchdogPingTimeout
        /\ npings' = npings + 1 =>
              LET names == DOMAIN subprocesses
                  room == RouterCap - Len(router)
                  new == (Len(router) + 1)..Len(router')
              IN  /\ ping_at = now
                  /\ ioloop = "running" => ping_at' = now + WatchdogPingTimeout
                  /\ Len(router') - Len(router) =
                        IF Cardinality(names) <= room THEN Cardinality(names) ELSE room
                  /\ SubSeq(router', 1, Len(router)) = router
                  /\ \A i \in new :
                        /\ router'[i].message = PING
                        /\ router'[i].recipient \in names
                        /\ router'[i].src = Svc
                  /\ \A i, j \in new :
                        i # j => router'[i].recipient # router'[j].recipient
      ]_vars

\* The ping timer has fired twice, ten seconds apart; the second time the router
\* queue had room for one PING only, and the timer is set again.
C18_PingSkippedOnFull ==
    /\ npings = 2 /\ nsent[Svc] = 3
    /\ now = 2 * WatchdogPingTimeout
    /\ ioloop = "running" /\ ping_at = now + WatchdogPingTimeout
    /\ Cardinality(DOMAIN subprocesses) = 2

\* --------------------------------------------------------------- C19
\* C19: when a child dispatches a message, of whatever kind, its _last_ping is the
\* time of that step; when the message is a PING, no Future and no entry of
\* self._pendings changes and nothing is put on the router queue.
C19_EveryMessageRefreshes ==
    [][ \A p \in Pids :
          Dispatches(p) =>
              /\ last_ping'[p] = now
              /\ Head(channel[Mailbox(p)]).message.tag = "PING" =>
                    UNCHANGED <<router, calls, nsent>>
      ]_vars

\* A worker has dispatched a MESSAGE, a PING and the FUTURE of its own call, the
\* last of them just now, after the clock had run; the worker it called has
\* dispatched the CALL.
C19_AllKindsDispatched ==
    \E i \in 1..Len(calls) :
        /\ calls[i].owner # Svc /\ calls[i].st = "result"
        /\ nmsgs = 1 /\ npings >= 1 /\ nsent[Svc] >= 2
        /\ dispatched[calls[i].owner][Svc] = nsent[Svc]
        /\ last_ping[calls[i].owner] = now /\ now > WatchdogPingTimeout

\* --------------------------------------------------------------- C20
\* C20: every record of self._subprocesses has a process that is a child handle
\* (the key is there and its value is not None) and a channel, at every moment,
\* also after a _create_process whose child was not alive at process.is_alive().
C20_RecordsComplete ==
    \A n \in DOMAIN subprocesses :
        /\ subprocesses[n].process \notin {None, Absent}
        /\ subprocesses[n].channel # Absent

\* --------------------------------------------------------------- C21
\* C21: of the children forked under one name at most one has not exited, and the
\* channel of the record under a name is the channel of the last child forked
\* under that name.
C21_OneChildPerName ==
    \A name \in Names :
        /\ \A p, q \in ChildrenOf(name) :
              is_alive(procs, p) /\ is_alive(procs, q) => p = q
        /\ name \in DOMAIN subprocesses /\ ChildrenOf(name) # {} =>
              subprocesses[name].channel = procs[Latest(name)].channel

\* --------------------------------------------------------------- C22
\* C22: while the supervisor's loop runs, with watchdog_ping_timeout smaller than
\* watchdog_check_timeout, no queue full and every loop dispatching what it is
\* sent before time goes on, the check of a running worker that is due never finds
\* (time() - self._last_ping) >= watchdog_check_timeout, the first check of a
\* spawned or respawned worker included: no worker is stopped by its watchdog.
C22_NoFalsePositive ==
    (started = "started" /\ ioloop = "running") =>
        \A p \in 1..Len(procs) :
            (procs[p].st = "alive" /\ check_at[p] # Absent /\ check_at[p] <= now) =>
                ~Expired(p)

\* --------------------------------------------------------------- C23
\* C23: the step in which a child dispatches a CALL leaves that child running,
\* whatever name the CALL carries, the names of the endpoint's own stop and start
\* included.
C23_CallNeverStops ==
    [][ \A p \in Pids :
          (Dispatches(p) /\ Head(channel[Mailbox(p)]).message.tag = "CALL") =>
              procs'[p].st = procs[p].st
      ]_vars

====
